---- MODULE Spec2Model ----
(***************************************************************************)
(* A model of the candidate-selection pipeline of stock_recom:             *)
(*   - RateLimiter            (src/rate_limiter.py)                        *)
(*   - RecommendationHistory  (src/recommendation_history.py)              *)
(*   - scoring and ranking    (src/main.py)                                *)
(* Time is an integer count of ticks.  For the rate limiter a tick is the  *)
(* 0.1 s safety margin of time.sleep (SleepBuffer); for the history store  *)
(* a day is TicksPerDay ticks.                                             *)
(***************************************************************************)
EXTENDS Integers, Sequences, FiniteSets, TLC

VARIABLES
    clock,          \* what datetime.now() returns
    raised,         \* "none", or the name of the exception that propagated
    \* ---- RateLimiter ----
    max_calls,      \* self.max_calls
    time_window,    \* self.time_window, in ticks
    calls,          \* self.calls, the deque of call timestamps
    rl_pc,          \* position of the caller of wait_if_needed: "idle" | "sleeping"
    now,            \* local `now` of wait_if_needed
    wait_seconds,   \* local `wait_seconds` of wait_if_needed
    recorded,       \* history variable: every timestamp ever appended to calls
    started,        \* history variable: number of wait_if_needed() calls begun
    usage,          \* what the last get_current_usage() returned
    \* ---- callers of the shared limiter ----
    av_todo,        \* the steps left in the Alpha Vantage function being executed
    av_requests,    \* history variable: number of Alpha Vantage requests issued
    th_pc,          \* per thread: its position in wait_if_needed
    th_now,         \* per thread: its local `now`
    th_wait,        \* per thread: its local `wait_seconds`
    \* ---- RecommendationHistory ----
    file,           \* the content of self.history_file on disk
    history,        \* self.history, the in-memory mapping
    ret,            \* the last call on the history object: its arguments and result
    writable,       \* whether open(self.history_file, 'w') and the dump succeed
    other_history,  \* self.history of a second RecommendationHistory object
    \* ---- main() ----
    main_pc,            \* position in main()
    excluded_tickers,   \* local `excluded_tickers`
    shortlist,          \* local `shortlist`, after deduplication
    shown,              \* number of excluded tickers the start-up loop has printed
    pos,                \* index into shortlist of the stock the loop analyzes next
    scored_candidates,  \* local `scored_candidates`
    outcome,            \* how the run ended: the message printed, or "reported"
    runs,               \* number of runs of main() started
    excluded_at,        \* history variable: when this run computed excluded_tickers
    analyzed,           \* history variable: what the calls of each loop iteration returned
    log                 \* history variable: every recommendation recorded by a run

rlVars == <<max_calls, time_window, calls, rl_pc, now, wait_seconds, recorded, started,
            usage>>
avVars == <<av_todo, av_requests>>
thVars == <<th_pc, th_now, th_wait>>
histVars == <<file, history, ret, writable, other_history>>
mainVars == <<main_pc, excluded_tickers, shown, shortlist, pos, scored_candidates,
              outcome, runs, excluded_at, analyzed, log>>
vars == <<clock, raised, rlVars, avVars, thVars, histVars, mainVars>>

(***************************************************************************)
(* Bounds of the model.                                                    *)
(***************************************************************************)
MaxTime == 6          \* the clock stops here
MaxCallsBound == 2    \* max_calls is drawn from 0..MaxCallsBound
MaxWindow == 2        \* time_window is drawn from 1..MaxWindow
MaxOversleep == 1     \* time.sleep may return this many ticks late
MaxRecorded == 4      \* number of wait_if_needed() calls begun in one behaviour
TicksPerDay == 2      \* resolution of the history store's clock
MaxDays == 2          \* the `days` arguments are drawn from 1..MaxDays
MaxCount == 2         \* superinvestor buy and sell counts are drawn from 0..MaxCount
MaxShortlist == 3     \* length of the list filter_stocks returns
MaxRuns == 3          \* number of sequential runs of main()

(***************************************************************************)
(* Program constants.                                                      *)
(***************************************************************************)
SleepBuffer == 1      \* time.sleep(wait_seconds + 0.1); one tick is 0.1 s
MIN_INSIDER_BUY_VALUE == 100000   \* config.MIN_INSIDER_BUY_VALUE, in dollars
DebtEquityLimit == 50 \* stock['Debt_Equity'] < 0.5, in hundredths
AboveLowLimit == 500  \* stock['Above_Low_Pct'] < 5, in hundredths of a percent
CooldownDays == 60    \* history.get_excluded_tickers(days=60)
RetentionDays == 365  \* clean_old_entries(self, days=365)
ShownLimit == 5       \* for ticker in excluded_tickers[:5]
FallbackScore == 5    \* return {'score': 5, 'analysis': "Analysis failed."}
MinScore == 1         \* the analyzer is asked for a score (1-10)
MaxScore == 10

Max(a, b) == IF a >= b THEN a ELSE b

(***************************************************************************)
(* RateLimiter                                                             *)
(***************************************************************************)

\* while self.calls and (now - self.calls[0]) > self.time_window: popleft()
RECURSIVE EvictStale(_, _)
EvictStale(c, t) ==
    IF c # <<>> /\ (t - Head(c)) > time_window
    THEN EvictStale(Tail(c), t)
    ELSE c

AtLimitOffByOne(c) == Len(c) >= max_calls - 1

\* if len(self.calls) >= self.max_calls:
AtLimit(c) == Len(c) >= max_calls

\* wait_until = oldest_call + self.time_window; (wait_until - now)
WaitSeconds(oldest_call, t) == (oldest_call + time_window) - t

RLInit ==
    /\ max_calls \in 0..MaxCallsBound
    /\ time_window \in 1..MaxWindow
    /\ calls = <<>>
    /\ rl_pc = "idle"
    /\ now = 0
    /\ wait_seconds = 0
    /\ recorded = <<>>
    /\ started = 0
    /\ usage = 0

\* The state of the limiter when it is not part of the specification.
RLIdle ==
    /\ max_calls = 1
    /\ time_window = 1
    /\ calls = <<>>
    /\ rl_pc = "idle"
    /\ now = 0
    /\ wait_seconds = 0
    /\ recorded = <<>>
    /\ started = 0
    /\ usage = 0

\* wait_if_needed(), from its entry to the sleep (or to its return when it
\* does not sleep).
WaitIfNeeded ==
    /\ rl_pc = "idle"
    /\ started < MaxRecorded
    /\ clock + time_window + SleepBuffer <= MaxTime
    /\ started' = started + 1
    /\ now' = clock
    /\ LET c1 == EvictStale(calls, clock) IN
       IF AtLimit(c1)
       THEN IF c1 = <<>>
            THEN \* oldest_call = self.calls[0] on an empty deque: IndexError
                 /\ raised' = "IndexError"
                 /\ calls' = c1
                 /\ UNCHANGED <<rl_pc, wait_seconds, recorded>>
            ELSE LET w == WaitSeconds(Head(c1), clock) IN
                 /\ wait_seconds' = w
                 /\ raised' = raised
                 /\ IF w > 0
                    THEN /\ rl_pc' = "sleeping"
                         /\ calls' = c1
                         /\ recorded' = recorded
                    ELSE /\ rl_pc' = "idle"
                         /\ calls' = Append(c1, clock)
                         /\ recorded' = Append(recorded, clock)
       ELSE /\ calls' = Append(c1, clock)
            /\ recorded' = Append(recorded, clock)
            /\ wait_seconds' = 0
            /\ UNCHANGED <<rl_pc, raised>>
    /\ UNCHANGED <<clock, max_calls, time_window, usage, thVars, histVars, mainVars>>

\* time.sleep(wait_seconds + 0.1) returns; the clock advanced meanwhile; the
\* second eviction and the append.
WaitIfNeededWake ==
    /\ rl_pc = "sleeping"
    /\ \E extra \in 0..MaxOversleep :
         LET t == Max(clock, now + wait_seconds + SleepBuffer) + extra IN
         /\ clock' = t
         /\ now' = t
         /\ calls' = Append(EvictStale(calls, t), t)
         /\ recorded' = Append(recorded, t)
    /\ rl_pc' = "idle"
    /\ UNCHANGED <<raised, max_calls, time_window, wait_seconds, started, usage, thVars,
                   histVars, mainVars>>

\* No Alpha Vantage function is being executed.
AVIdle == av_todo = <<>> /\ av_requests = 0

Threads == {1, 2}

\* No thread is inside wait_if_needed.
ThIdle ==
    /\ th_pc = [c \in Threads |-> "idle"]
    /\ th_now = [c \in Threads |-> 0]
    /\ th_wait = [c \in Threads |-> 0]

\* Time passes between calls.
Advance(d) ==
    /\ clock' = clock + d
    /\ UNCHANGED <<raised, rlVars, avVars, thVars, histVars, mainVars>>

(***************************************************************************)
(* RecommendationHistory                                                   *)
(*                                                                         *)
(* A Python dict keeps insertion order: the mapping is a sequence of       *)
(* entries with distinct tickers.  The JSON text of the file is            *)
(* represented by the value it denotes.  An ISO-8601 string is a sequence  *)
(* <<day>> or <<day, fraction>>: datetime.isoformat() omits the fraction   *)
(* when it is zero.                                                        *)
(***************************************************************************)
Tickers == {"AAA", "BBB"}
\* the (score, price_delta) arguments add_recommendation is called with
Recommendations == {<<3, 7>>, <<8, 1>>}

\* datetime.isoformat()
IsoFormat(t) ==
    IF t % TicksPerDay = 0
    THEN <<t \div TicksPerDay>>
    ELSE <<t \div TicksPerDay, t % TicksPerDay>>

\* whether datetime.fromisoformat(s) succeeds; a missing 'date' key is <<>>
Parsable(s) ==
    \/ Len(s) = 1
    \/ Len(s) = 2 /\ s[2] \in 1..(TicksPerDay - 1)

\* datetime.fromisoformat(s)
FromIsoFormat(s) ==
    IF Len(s) = 1 THEN s[1] * TicksPerDay ELSE s[1] * TicksPerDay + s[2]

\* timedelta(days=days)
TimeDelta(days) == days * TicksPerDay

EmptyDict == [kind |-> "dict", items |-> <<>>]
NonDict == [kind |-> "list", items |-> <<>>]

Keys(h) == {h.items[i].ticker : i \in 1..Len(h.items)}

\* position of ticker's entry, 0 when absent
Find(h, ticker) ==
    IF ticker \in Keys(h)
    THEN CHOOSE i \in 1..Len(h.items) : h.items[i].ticker = ticker
    ELSE 0

\* self.history[ticker]
Get(h, ticker) == h.items[Find(h, ticker)]

DictSetAppend(h, ticker, entry) == [h EXCEPT !.items = Append(h.items, entry)]

\* self.history[ticker] = entry
DictSet(h, ticker, entry) ==
    IF ticker \in Keys(h)
    THEN [h EXCEPT !.items[Find(h, ticker)] = entry]
    ELSE [h EXCEPT !.items = Append(h.items, entry)]

\* del self.history[ticker], for every ticker of a set
DictDel(h, remove) ==
    [h EXCEPT !.items = SelectSeq(h.items, LAMBDA e : e.ticker \notin remove)]

\* some entry's date makes datetime.fromisoformat(data['date']) raise
SomeDateUnparsable(h) == \E i \in 1..Len(h.items) : ~Parsable(h.items[i].date)

NoInfo == [found |-> FALSE, last_recommended |-> 0, days_ago |-> 0,
           score |-> 0, price_delta |-> 0]

NoRet == [op |-> "none", ticker |-> "", days |-> 0, at |-> 0, score |-> 0,
          price_delta |-> 0, result |-> FALSE, list |-> <<>>, saved |-> FALSE,
          info |-> NoInfo]

\* _load_history: a missing file, and any exception while reading or
\* decoding it, give {}; otherwise whatever json.load returns
LoadHistory(f) == IF f.state = "ok" THEN f.value ELSE EmptyDict

\* _save_history: json.dump(self.history, f)
SaveHistory(h) == [state |-> "ok", value |-> h]

\* what a failed write leaves behind: open(..., 'w') raised and the file is as
\* it was, or json.dump raised after open truncated the file
FailedWrite == {file, [state |-> "invalid", value |-> EmptyDict]}

SaveOutcomeSwallowed(h) ==
    IF writable THEN {[file |-> SaveHistory(h), error |-> "none"]}
    ELSE {[file |-> f, error |-> "none"] : f \in FailedWrite}

\* self._save_history() as its callers see it: there is no try around the
\* open or the dump, an OSError leaves the method
SaveOutcome(h) ==
    IF writable THEN {[file |-> SaveHistory(h), error |-> "none"]}
    ELSE {[file |-> f, error |-> "OSError"] : f \in FailedWrite}

NotLaterThan(a, b) == a >= b

\* last_recommended > cutoff_date
LaterThan(a, b) == a > b

NotEarlierThan(a, b) == a <= b

\* last_recommended < cutoff_date
EarlierThan(a, b) == a < b

RECURSIVE ExcludedLoopBreak(_, _)
ExcludedLoopBreak(items, cutoff_date) ==
    IF items = <<>> THEN <<>>
    ELSE IF FromIsoFormat(Head(items).date) > cutoff_date
         THEN <<Head(items).ticker>> \o ExcludedLoopBreak(Tail(items), cutoff_date)
         ELSE <<>>

\* the loop of get_excluded_tickers
RECURSIVE ExcludedLoop(_, _)
ExcludedLoop(items, cutoff_date) ==
    IF items = <<>> THEN <<>>
    ELSE LET data == Head(items)
             last_recommended == FromIsoFormat(data.date)
             rest == ExcludedLoop(Tail(items), cutoff_date)
         IN IF LaterThan(last_recommended, cutoff_date)
            THEN <<data.ticker>> \o rest
            ELSE rest

\* the first loop of clean_old_entries: tickers_to_remove
RECURSIVE TickersToRemove(_, _)
TickersToRemove(items, cutoff_date) ==
    IF items = <<>> THEN <<>>
    ELSE LET data == Head(items)
             last_recommended == FromIsoFormat(data.date)
             rest == TickersToRemove(Tail(items), cutoff_date)
         IN IF EarlierThan(last_recommended, cutoff_date)
            THEN <<data.ticker>> \o rest
            ELSE rest

Range(q) == {q[i] : i \in 1..Len(q)}

\* the state of the history object when it is not part of the specification
HistIdle ==
    /\ file = [state |-> "missing", value |-> EmptyDict]
    /\ history = EmptyDict
    /\ ret = NoRet
    /\ writable = TRUE
    /\ other_history = EmptyDict

\* RecommendationHistory(): __init__ loads the file
Construct ==
    /\ history' = LoadHistory(file)
    /\ ret' = [NoRet EXCEPT !.op = "init", !.at = clock]
    /\ UNCHANGED <<clock, raised, file, writable, other_history, rlVars, avVars, thVars>>

\* is_recently_recommended(ticker, days)
IsRecentlyRecommended(ticker, days) ==
    /\ IF history.kind = "dict" /\ ticker \in Keys(history)
       THEN IF Parsable(Get(history, ticker).date)
            THEN LET last_recommended == FromIsoFormat(Get(history, ticker).date)
                     cutoff_date == clock - TimeDelta(days)
                 IN /\ ret' = [NoRet EXCEPT !.op = "is_recently_recommended",
                                   !.ticker = ticker, !.days = days, !.at = clock,
                                   !.result = LaterThan(last_recommended, cutoff_date)]
                    /\ raised' = raised
            ELSE /\ ret' = [NoRet EXCEPT !.op = "raise", !.at = clock]
                 /\ raised' = "ValueError"
       ELSE \* `ticker not in self.history`, on a dict or on a list
            /\ ret' = [NoRet EXCEPT !.op = "is_recently_recommended",
                           !.ticker = ticker, !.days = days, !.at = clock]
            /\ raised' = raised
    /\ UNCHANGED <<clock, file, history, writable, other_history, rlVars, avVars, thVars>>

\* add_recommendation(ticker, score, price_delta)
AddRecommendation(ticker, score, price_delta) ==
    /\ IF history.kind = "dict"
       THEN LET entry == [ticker |-> ticker, date |-> IsoFormat(clock),
                          score |-> score, price_delta |-> price_delta]
                h == DictSet(history, ticker, entry)
            IN /\ history' = h
               /\ \E saved \in SaveOutcome(h) :
                      /\ file' = saved.file
                      /\ IF saved.error = "none"
                         THEN /\ ret' = [NoRet EXCEPT !.op = "add_recommendation",
                                             !.ticker = ticker, !.at = clock,
                                             !.score = score,
                                             !.price_delta = price_delta,
                                             !.saved = TRUE]
                              /\ raised' = raised
                         ELSE /\ ret' = [NoRet EXCEPT !.op = "raise", !.at = clock]
                              /\ raised' = saved.error
       ELSE \* a list index must be an integer
            /\ ret' = [NoRet EXCEPT !.op = "raise", !.at = clock]
            /\ raised' = "TypeError"
            /\ UNCHANGED <<history, file>>
    /\ UNCHANGED <<clock, writable, other_history, rlVars, avVars, thVars>>

\* get_excluded_tickers(days)
GetExcludedTickers(days) ==
    /\ IF history.kind # "dict"
       THEN \* a list has no .items()
            /\ ret' = [NoRet EXCEPT !.op = "raise", !.at = clock]
            /\ raised' = "AttributeError"
       ELSE IF SomeDateUnparsable(history)
       THEN /\ ret' = [NoRet EXCEPT !.op = "raise", !.at = clock]
            /\ raised' = "ValueError"
       ELSE LET cutoff_date == clock - TimeDelta(days) IN
            /\ ret' = [NoRet EXCEPT !.op = "get_excluded_tickers",
                           !.days = days, !.at = clock,
                           !.list = ExcludedLoop(history.items, cutoff_date)]
            /\ raised' = raised
    /\ UNCHANGED <<clock, file, history, writable, other_history, rlVars, avVars, thVars>>

\* get_recommendation_info(ticker)
GetRecommendationInfo(ticker) ==
    /\ IF history.kind = "dict" /\ ticker \in Keys(history)
       THEN LET data == Get(history, ticker) IN
            IF Parsable(data.date)
            THEN LET last_date == FromIsoFormat(data.date) IN
                 /\ ret' = [NoRet EXCEPT !.op = "get_recommendation_info",
                                !.ticker = ticker, !.at = clock,
                                !.info = [found |-> TRUE,
                                          last_recommended |-> last_date \div TicksPerDay,
                                          days_ago |-> (clock - last_date) \div TicksPerDay,
                                          score |-> data.score,
                                          price_delta |-> data.price_delta]]
                 /\ raised' = raised
            ELSE /\ ret' = [NoRet EXCEPT !.op = "raise", !.at = clock]
                 /\ raised' = "ValueError"
       ELSE /\ ret' = [NoRet EXCEPT !.op = "get_recommendation_info",
                           !.ticker = ticker, !.at = clock]
            /\ raised' = raised
    /\ UNCHANGED <<clock, file, history, writable, other_history, rlVars, avVars, thVars>>

CleanCutoffDayShort(days) == clock - TimeDelta(days - 1)

\* cutoff_date = datetime.now() - timedelta(days=days) in clean_old_entries
CleanCutoff(days) == clock - TimeDelta(days)

\* clean_old_entries(days)
CleanOldEntries(days) ==
    /\ IF history.kind # "dict"
       THEN /\ ret' = [NoRet EXCEPT !.op = "raise", !.at = clock]
            /\ raised' = "AttributeError"
            /\ UNCHANGED <<history, file>>
       ELSE IF SomeDateUnparsable(history)
       THEN /\ ret' = [NoRet EXCEPT !.op = "raise", !.at = clock]
            /\ raised' = "ValueError"
            /\ UNCHANGED <<history, file>>
       ELSE LET cutoff_date == CleanCutoff(days)
                tickers_to_remove == TickersToRemove(history.items, cutoff_date)
                h == DictDel(history, Range(tickers_to_remove))
            IN /\ history' = h
               /\ \E saved \in IF tickers_to_remove # <<>> THEN SaveOutcome(h)
                                 ELSE {[file |-> file, error |-> "none"]} :
                      /\ file' = saved.file
                      /\ IF saved.error = "none"
                         THEN /\ ret' = [NoRet EXCEPT !.op = "clean_old_entries",
                                             !.days = days, !.at = clock,
                                             !.list = tickers_to_remove,
                                             !.saved = (tickers_to_remove # <<>>)]
                              /\ raised' = raised
                         ELSE /\ ret' = [NoRet EXCEPT !.op = "raise", !.at = clock]
                              /\ raised' = saved.error
    /\ UNCHANGED <<clock, writable, other_history, rlVars, avVars, thVars>>

(***************************************************************************)
(* main(): scoring                                                         *)
(*                                                                         *)
(* Debt_Equity and Above_Low_Pct are floats rounded to two decimals and    *)
(* are counted in hundredths.  score and total_score are counted in half   *)
(* points, since `x / 2` of an integer score is a multiple of 0.5.         *)
(***************************************************************************)

\* get_superinvestor_data: None (the page could not be fetched), the dict
\* without 'has_superinvestor_addition' (no grid table), or the full dict
SuperinvestorFacts ==
    {[kind |-> "none", buys |-> 0, sells |-> 0],
     [kind |-> "notable", buys |-> 0, sells |-> 0]}
    \cup [kind : {"table"}, buys : 0..MaxCount, sells : 0..MaxCount]

NetValues == {-1, 0, 1, MIN_INSIDER_BUY_VALUE, 150000}

\* get_insider_data: None, or a dict (all zero when there is no table)
InsiderFacts ==
    {[kind |-> "none", buys |-> 0, net_value |-> 0]}
    \cup [kind : {"dict"}, buys : 0..1, net_value : NetValues]

\* what analyze_management / score_sustainability return: the parsed JSON
\* (a dict with a 'score', a dict without one, or a value that is no dict), or
\* the fallback dict of _call_llm when the call failed or the text did not parse
AnalyzerResults ==
    {[kind |-> "noscore", score |-> 0], [kind |-> "nondict", score |-> 0],
     [kind |-> "fallback", score |-> FallbackScore]}
    \cup [kind : {"score"}, score : {MinScore, 6, 8, MaxScore}]

DebtEquityValues ==
    {[known |-> FALSE, value |-> 0], [known |-> TRUE, value |-> 0],
     [known |-> TRUE, value |-> -20], [known |-> TRUE, value |-> 30],
     [known |-> TRUE, value |-> DebtEquityLimit]}

AboveLowValues == {300, AboveLowLimit}

\* one element of the list filter_stocks returns
Stocks(tickers) ==
    [Ticker : tickers, Above_Low_Pct : AboveLowValues, Debt_Equity : DebtEquityValues]

\* what the calls of one loop iteration return (fetch_raises: one of the
\* research or analyzer calls raised)
Analyses ==
    [superinvestor : SuperinvestorFacts, insider : InsiderFacts,
     management : AnalyzerResults, sustainability : AnalyzerResults,
     fetch_raises : {FALSE}]
    \cup {[superinvestor |-> [kind |-> "notable", buys |-> 0, sells |-> 0],
           insider |-> [kind |-> "none", buys |-> 0, net_value |-> 0],
           management |-> [kind |-> "noscore", score |-> 0],
           sustainability |-> [kind |-> "noscore", score |-> 0],
           fetch_raises |-> TRUE]}

\* 'has_superinvestor_addition': buys > 0; si.get(...) is None without the key
HasSuperinvestorAddition(si) == si.kind = "table" /\ si.buys > 0

\* the elif branch left out
SuperinvestorScoreNoElif(si) ==
    IF HasSuperinvestorAddition(si)
    THEN 3 + (IF si.buys > si.sells THEN 2 ELSE 0)
    ELSE 0

\* superinvestor scoring (0-5 points)
SuperinvestorScore(si) ==
    IF HasSuperinvestorAddition(si)
    THEN 3 + (IF si.buys > si.sells THEN 2
              ELSE IF si.buys > 0 THEN 1 ELSE 0)
    ELSE 0

InsiderScoreFive(ins) ==
    IF ins.kind = "dict"
    THEN IF ins.net_value > MIN_INSIDER_BUY_VALUE THEN 5
         ELSE IF ins.net_value > 0 THEN 2
         ELSE IF ins.buys > 0 THEN 1 ELSE 0
    ELSE 0

\* the threshold compared with >=
InsiderScoreInclusive(ins) ==
    IF ins.kind = "dict"
    THEN IF ins.net_value >= MIN_INSIDER_BUY_VALUE THEN 3
         ELSE IF ins.net_value > 0 THEN 2
         ELSE IF ins.buys > 0 THEN 1 ELSE 0
    ELSE 0

\* insider scoring; `if ins:` is false for None
InsiderScore(ins) ==
    IF ins.kind = "dict"
    THEN IF ins.net_value > MIN_INSIDER_BUY_VALUE THEN 3
         ELSE IF ins.net_value > 0 THEN 2
         ELSE IF ins.buys > 0 THEN 1 ELSE 0
    ELSE 0

QualitativeNotHalved(analysis) ==
    IF analysis.kind \in {"score", "fallback"} THEN 2 * analysis.score ELSE 0

\* analysis.get('score', 0) / 2, in half points
QualitativeHalfPoints(analysis) ==
    IF analysis.kind \in {"score", "fallback"} THEN analysis.score ELSE 0

\* the quantitative bonus; `stock['Debt_Equity'] and ...` is false for None
\* and for 0.0
BonusPoints(stock) ==
    (IF stock.Debt_Equity.known /\ stock.Debt_Equity.value # 0
        /\ stock.Debt_Equity.value < DebtEquityLimit THEN 1 ELSE 0)
    + (IF stock.Above_Low_Pct < AboveLowLimit THEN 1 ELSE 0)

\* an iteration of the loop raises, and the except clause skips the stock
AnalysisRaises(a) ==
    \/ a.fetch_raises
    \/ a.superinvestor.kind = "none"
    \/ a.management.kind = "nondict"
    \/ a.sustainability.kind = "nondict"

\* the dict appended to scored_candidates
Candidate(stock, a) ==
    LET insider_score == InsiderScore(a.insider)
        superinvestor_score == SuperinvestorScore(a.superinvestor)
        smart_money_score == insider_score + superinvestor_score
        score == 2 * smart_money_score
                 + QualitativeHalfPoints(a.management)
                 + QualitativeHalfPoints(a.sustainability)
                 + 2 * BonusPoints(stock)
    IN [ticker |-> stock.Ticker,
        total_score |-> score,
        smart_money_score |-> smart_money_score,
        insider_score |-> insider_score,
        superinvestor_score |-> superinvestor_score,
        price_delta_pct |-> stock.Above_Low_Pct,
        price_data |-> stock,
        analysis_data |-> [superinvestor |-> a.superinvestor, insider |-> a.insider],
        ai_data |-> [management |-> a.management, sustainability |-> a.sustainability]]

\* the state of main() when it is not part of the specification
MainIdle ==
    /\ main_pc = "done"
    /\ excluded_tickers = <<>>
    /\ shown = 0
    /\ shortlist = <<>>
    /\ pos = 1
    /\ scored_candidates = <<>>
    /\ outcome = ""
    /\ runs = 0
    /\ excluded_at = 0
    /\ analyzed = <<>>
    /\ log = <<>>

\* an iteration that raises ends the loop
AnalyzeStockAbort(a) ==
    /\ main_pc = "analyzing"
    /\ pos <= Len(shortlist)
    /\ scored_candidates' =
          IF AnalysisRaises(a)
          THEN scored_candidates
          ELSE Append(scored_candidates, Candidate(shortlist[pos], a))
    /\ pos' = IF AnalysisRaises(a) THEN Len(shortlist) + 1 ELSE pos + 1
    /\ analyzed' = Append(analyzed, a)
    /\ UNCHANGED <<clock, raised, rlVars, avVars, thVars, histVars, main_pc, excluded_tickers, shown,
                   shortlist, outcome, runs, excluded_at, log>>

\* one iteration of `for stock in shortlist`
AnalyzeStock(a) ==
    /\ main_pc = "analyzing"
    /\ pos <= Len(shortlist)
    /\ scored_candidates' =
          IF AnalysisRaises(a)
          THEN scored_candidates
          ELSE Append(scored_candidates, Candidate(shortlist[pos], a))
    /\ pos' = pos + 1
    /\ analyzed' = Append(analyzed, a)
    /\ UNCHANGED <<clock, raised, rlVars, avVars, thVars, histVars, main_pc, excluded_tickers, shown,
                   shortlist, outcome, runs, excluded_at, log>>

\* main() is started
NewRun ==
    /\ main_pc \in {"done", "crashed"}
    /\ runs < MaxRuns
    /\ runs' = runs + 1
    /\ main_pc' = "start"
    /\ excluded_tickers' = <<>>
    /\ shown' = 0
    /\ shortlist' = <<>>
    /\ pos' = 1
    /\ scored_candidates' = <<>>
    /\ outcome' = ""
    /\ history' = EmptyDict
    /\ ret' = NoRet
    /\ excluded_at' = 0
    /\ analyzed' = <<>>
    /\ UNCHANGED <<clock, raised, rlVars, avVars, thVars, file, writable, other_history,
                   log>>

\* history = RecommendationHistory()
MainConstruct ==
    /\ main_pc = "start"
    /\ Construct
    /\ main_pc' = "constructed"
    /\ UNCHANGED <<excluded_tickers, shown, shortlist, pos, scored_candidates, outcome,
                   runs, excluded_at, analyzed, log>>

\* history.clean_old_entries(); an exception ends main()
MainClean ==
    /\ main_pc = "constructed"
    /\ CleanOldEntries(RetentionDays)
    /\ main_pc' = IF ret'.op = "raise" THEN "crashed" ELSE "cleaned"
    /\ UNCHANGED <<excluded_tickers, shown, shortlist, pos, scored_candidates, outcome,
                   runs, excluded_at, analyzed, log>>

\* excluded_tickers = history.get_excluded_tickers(days=60)
MainExcluded ==
    /\ main_pc = "cleaned"
    /\ GetExcludedTickers(CooldownDays)
    /\ main_pc' = IF ret'.op = "raise" THEN "crashed" ELSE "showing"
    /\ excluded_tickers' = ret'.list
    /\ excluded_at' = clock
    /\ shown' = 0
    /\ UNCHANGED <<shortlist, pos, scored_candidates, outcome, runs, analyzed, log>>

Min(a, b) == IF a <= b THEN a ELSE b

\* one iteration of `for ticker in excluded_tickers[:5]`
MainShowExcluded ==
    /\ main_pc = "showing"
    /\ shown < Min(Len(excluded_tickers), ShownLimit)
    /\ GetRecommendationInfo(excluded_tickers[shown + 1])
    /\ main_pc' = IF ret'.op = "raise" \/ ~ret'.info.found THEN "crashed" ELSE "showing"
    /\ shown' = shown + 1
    /\ UNCHANGED <<excluded_tickers, shortlist, pos, scored_candidates, outcome, runs,
                   excluded_at, analyzed, log>>

\* the deduplication of the shortlist: the first stock of each ticker is kept
RECURSIVE Deduplicate(_, _)
Deduplicate(stocks, seen_tickers) ==
    IF stocks = <<>> THEN <<>>
    ELSE IF Head(stocks).Ticker \in seen_tickers
         THEN Deduplicate(Tail(stocks), seen_tickers)
         ELSE <<Head(stocks)>>
              \o Deduplicate(Tail(stocks), seen_tickers \cup {Head(stocks).Ticker})

\* screening: filter_stocks returns sl; the shortlist is deduplicated
MainScreen(sl) ==
    /\ main_pc = "showing"
    /\ shown = Min(Len(excluded_tickers), ShownLimit)
    /\ shortlist' = Deduplicate(sl, {})
    /\ pos' = 1
    /\ scored_candidates' = <<>>
    /\ IF shortlist' = <<>>
       THEN /\ outcome' = "No stocks found matching criteria."
            /\ main_pc' = "done"
       ELSE /\ outcome' = outcome
            /\ main_pc' = "analyzing"
    /\ UNCHANGED <<clock, raised, rlVars, avVars, thVars, histVars, excluded_tickers, shown, runs,
                   excluded_at, analyzed, log>>

\* the third key compared in descending order
KeyLessDescendingDelta(x, y) ==
    \/ x.smart_money_score > y.smart_money_score
    \/ /\ x.smart_money_score = y.smart_money_score
       /\ \/ x.total_score > y.total_score
          \/ /\ x.total_score = y.total_score
             /\ x.price_delta_pct > y.price_delta_pct

\* the sort key (-smart_money_score, -total_score, price_delta_pct) of x is
\* smaller than that of y
KeyLess(x, y) ==
    \/ x.smart_money_score > y.smart_money_score
    \/ /\ x.smart_money_score = y.smart_money_score
       /\ \/ x.total_score > y.total_score
          \/ /\ x.total_score = y.total_score
             /\ x.price_delta_pct < y.price_delta_pct

\* x is placed before the first element whose key is not smaller
RECURSIVE InsertSortedUnstable(_, _)
InsertSortedUnstable(sorted, x) ==
    IF sorted = <<>> THEN <<x>>
    ELSE IF ~KeyLess(Head(sorted), x)
         THEN <<x>> \o sorted
         ELSE <<Head(sorted)>> \o InsertSortedUnstable(Tail(sorted), x)

\* x is placed before the first element whose key is larger: equal keys keep
\* their order (list.sort is stable)
RECURSIVE InsertSorted(_, _)
InsertSorted(sorted, x) ==
    IF sorted = <<>> THEN <<x>>
    ELSE IF KeyLess(x, Head(sorted))
         THEN <<x>> \o sorted
         ELSE <<Head(sorted)>> \o InsertSorted(Tail(sorted), x)

\* scored_candidates.sort(key=...)
RECURSIVE SortCandidates(_)
SortCandidates(cs) ==
    IF cs = <<>> THEN <<>>
    ELSE InsertSorted(SortCandidates(SubSeq(cs, 1, Len(cs) - 1)), cs[Len(cs)])

\* the filter left out: every candidate is kept
NotExcludedUnfiltered(cs, excluded) == cs

\* the exclusion list computed again at the time of the filter
NotExcludedRecomputed(cs, excluded) ==
    SelectSeq(cs, LAMBDA c :
        c.ticker \notin Range(ExcludedLoop(history.items, clock - TimeDelta(CooldownDays))))

\* [c for c in scored_candidates if c['ticker'] not in excluded_tickers]
NotExcluded(cs, excluded) == SelectSeq(cs, LAMBDA c : c.ticker \notin Range(excluded))

\* both empty outcomes reported with the same message
EmptyOutcomeMerged(scored, filtered) ==
    IF scored = <<>> \/ filtered = <<>> THEN "No candidates after analysis." ELSE ""

\* the message of the early return after the loop, "" when there is none
EmptyOutcome(scored, filtered) ==
    IF scored = <<>> THEN "No candidates after analysis."
    ELSE IF filtered = <<>> THEN "No new candidates available."
    ELSE ""

RecordedArgumentsTotalScore(best_candidate) ==
    [ticker |-> best_candidate.ticker,
     score |-> best_candidate.total_score,
     price_delta |-> best_candidate.price_delta_pct]

\* the arguments of history.add_recommendation(ticker=, score=, price_delta=)
RecordedArguments(best_candidate) ==
    [ticker |-> best_candidate.ticker,
     score |-> best_candidate.smart_money_score,
     price_delta |-> best_candidate.price_delta_pct]

\* after the loop: the empty outcomes, the filter, the sort, the selection of
\* the best candidate and history.add_recommendation
MainSelect ==
    /\ main_pc = "analyzing"
    /\ pos > Len(shortlist)
    /\ LET filtered == NotExcluded(scored_candidates, excluded_tickers)
           sorted == SortCandidates(filtered)
           message == EmptyOutcome(scored_candidates, filtered)
       IN IF message # ""
          THEN /\ outcome' = message
               /\ main_pc' = "done"
               /\ scored_candidates' = filtered
               /\ UNCHANGED <<clock, raised, rlVars, avVars, thVars, histVars, log>>
          ELSE /\ scored_candidates' = sorted
               /\ LET args == RecordedArguments(sorted[1])
                  IN AddRecommendation(args.ticker, args.score, args.price_delta)
               /\ main_pc' = IF ret'.op = "raise" THEN "crashed" ELSE "reporting"
               /\ outcome' = outcome
               /\ log' = IF ret'.op = "raise" THEN log
                         ELSE Append(log, [ticker |-> sorted[1].ticker, at |-> clock,
                                           excluded_at |-> excluded_at])
    /\ UNCHANGED <<excluded_tickers, shown, shortlist, pos, runs, excluded_at, analyzed>>

\* report generation
MainReport ==
    /\ main_pc = "reporting"
    /\ outcome' = "reported"
    /\ main_pc' = "done"
    /\ UNCHANGED <<clock, raised, rlVars, avVars, thVars, histVars, excluded_tickers, shown, shortlist,
                   pos, scored_candidates, runs, excluded_at, analyzed, log>>

(***************************************************************************)
(* Specifications                                                          *)
(***************************************************************************)
RLNext ==
    \/ WaitIfNeeded /\ UNCHANGED avVars
    \/ WaitIfNeededWake /\ UNCHANGED avVars
    \/ clock < MaxTime /\ Advance(1)

InitRL ==
    clock = 0 /\ raised = "none" /\ RLInit /\ AVIdle /\ ThIdle /\ HistIdle /\ MainIdle

SpecRL == InitRL /\ [][RLNext]_vars

\* time.sleep returns: the clock advances during the sleep.
SpecRLFair == SpecRL /\ WF_vars(WaitIfNeededWake /\ UNCHANGED avVars)

\* A process using one RecommendationHistory object, in any order.
HistNext ==
    \/ clock < MaxTime /\ Advance(1)
    \/ \E ticker \in Tickers, days \in 1..MaxDays :
           IsRecentlyRecommended(ticker, days) /\ UNCHANGED mainVars
    \/ \E ticker \in Tickers, r \in Recommendations :
           AddRecommendation(ticker, r[1], r[2]) /\ UNCHANGED mainVars
    \/ \E days \in 1..MaxDays : GetExcludedTickers(days) /\ UNCHANGED mainVars
    \/ \E ticker \in Tickers : GetRecommendationInfo(ticker) /\ UNCHANGED mainVars
    \/ \E days \in 1..MaxDays : CleanOldEntries(days) /\ UNCHANGED mainVars

InitHist ==
    clock = 0 /\ raised = "none" /\ RLIdle /\ AVIdle /\ ThIdle /\ HistIdle /\ MainIdle

SpecHist == InitHist /\ [][HistNext]_vars

\* The scoring of one shortlisted stock, for every stock and every analysis.
InitScore ==
    /\ clock = 0 /\ raised = "none" /\ RLIdle /\ AVIdle /\ ThIdle /\ HistIdle
    /\ main_pc = "analyzing"
    /\ excluded_tickers = <<>>
    /\ shown = 0
    /\ shortlist \in {<<stock>> : stock \in Stocks({"AAA"})}
    /\ pos = 1
    /\ scored_candidates = <<>>
    /\ outcome = ""
    /\ runs = 1
    /\ excluded_at = 0
    /\ analyzed = <<>>
    /\ log = <<>>

ScoreNext ==
    /\ main_pc = "analyzing" /\ pos <= Len(shortlist)
    /\ \E a \in Analyses : AnalyzeStock(a)

SpecScore == InitScore /\ [][ScoreNext]_vars

(***************************************************************************)
(* The start-up steps of main() on any content of the history file.        *)
(***************************************************************************)
StartClock == TimeDelta(RetentionDays) + TicksPerDay

\* dates around the retention and cooldown cutoffs of StartClock, and <<>>
\* for an entry without a parsable date
StartupDates ==
    {IsoFormat(0), IsoFormat(StartClock - TimeDelta(RetentionDays)),
     IsoFormat(StartClock - TimeDelta(CooldownDays)),
     IsoFormat(StartClock - TimeDelta(CooldownDays) + 1), <<>>}

StartupEntries == [ticker : Tickers, date : StartupDates, score : {8}, price_delta : {1}]

StartupFiles ==
    {[state |-> st, value |-> EmptyDict] : st \in {"missing", "unreadable", "invalid"}}
    \cup {[state |-> "ok", value |-> NonDict], [state |-> "ok", value |-> EmptyDict]}
    \cup {[state |-> "ok", value |-> [kind |-> "dict", items |-> <<e>>]] :
             e \in StartupEntries}
    \cup {[state |-> "ok", value |-> [kind |-> "dict", items |-> <<e1, e2>>]] :
             e1 \in {e \in StartupEntries : e.ticker = "AAA"},
             e2 \in {e \in StartupEntries : e.ticker = "BBB"}}

InitStartup ==
    /\ clock = StartClock /\ raised = "none" /\ RLIdle /\ AVIdle /\ ThIdle
    /\ file \in StartupFiles
    /\ history = EmptyDict
    /\ ret = NoRet
    /\ writable = TRUE
    /\ other_history = EmptyDict
    /\ main_pc = "start"
    /\ excluded_tickers = <<>>
    /\ shown = 0
    /\ shortlist = <<>>
    /\ pos = 1
    /\ scored_candidates = <<>>
    /\ outcome = ""
    /\ runs = 1
    /\ excluded_at = 0
    /\ analyzed = <<>>
    /\ log = <<>>

StartupNext ==
    \/ MainConstruct
    \/ MainClean
    \/ MainExcluded
    \/ MainShowExcluded

SpecStartup == InitStartup /\ [][StartupNext]_vars

(***************************************************************************)
(* Sequential runs of main() that share the history file.                  *)
(***************************************************************************)
PipeStocks ==
    {[Ticker |-> "AAA", Above_Low_Pct |-> 300, Debt_Equity |-> [known |-> TRUE, value |-> 30]],
     [Ticker |-> "BBB", Above_Low_Pct |-> AboveLowLimit, Debt_Equity |-> [known |-> FALSE, value |-> 0]]}

PipeShortlists ==
    {<<>>} \cup {<<x>> : x \in PipeStocks} \cup {<<x, y>> : x \in PipeStocks, y \in PipeStocks}

PipeAnalyses ==
    [fetch_raises : {FALSE},
     superinvestor : {[kind |-> "none", buys |-> 0, sells |-> 0],
                      [kind |-> "table", buys |-> 2, sells |-> 0]},
     insider : {[kind |-> "dict", buys |-> 1, net_value |-> 150000]},
     management : {[kind |-> "score", score |-> 8]},
     sustainability : {[kind |-> "score", score |-> 6]}]

\* the time between two steps of a run, or between two runs
PipeSteps ==
    {TimeDelta(CooldownDays) - 1, TimeDelta(CooldownDays)}

PipeHorizon == TimeDelta(3 * CooldownDays)

InitPipe ==
    /\ clock = 0 /\ raised = "none" /\ RLIdle /\ AVIdle /\ ThIdle /\ HistIdle /\ MainIdle

PipeNext ==
    \/ NewRun
    \/ MainConstruct
    \/ MainClean
    \/ MainExcluded
    \/ MainShowExcluded
    \/ \E sl \in PipeShortlists : MainScreen(sl)
    \/ /\ main_pc = "analyzing" /\ pos <= Len(shortlist)
       /\ \E a \in PipeAnalyses : AnalyzeStock(a)
    \/ MainSelect
    \/ MainReport
    \/ /\ main_pc = "start" \/ (main_pc = "analyzing" /\ pos = 1)
       /\ \E d \in PipeSteps : clock + d <= PipeHorizon /\ Advance(d)

SpecPipe == InitPipe /\ [][PipeNext]_vars

(***************************************************************************)
(* One run of main() over a history file left by earlier runs.             *)
(***************************************************************************)
RunTickers == {"AAA", "BBB", "CCC"}

RunStocks ==
    {[Ticker |-> t[1], Above_Low_Pct |-> t[2], Debt_Equity |-> [known |-> FALSE, value |-> 0]] :
        t \in {<<"AAA", 300>>, <<"BBB", 300>>, <<"BBB", AboveLowLimit>>,
               <<"CCC", AboveLowLimit>>}}

RECURSIVE SeqsUpTo(_, _)
SeqsUpTo(S, n) ==
    IF n = 0 THEN {<<>>}
    ELSE SeqsUpTo(S, n - 1)
         \cup {Append(q, x) : q \in {r \in SeqsUpTo(S, n - 1) : Len(r) = n - 1}, x \in S}

RunShortlists == SeqsUpTo(RunStocks, MaxShortlist)

\* two iterations that raise (a call raises; the superinvestor fact is
\* None), and three that complete: no activity, no activity with a higher
\* management score, superinvestor buying
RunAnalyses ==
    {[superinvestor |-> [kind |-> "notable", buys |-> 0, sells |-> 0],
      insider |-> [kind |-> "none", buys |-> 0, net_value |-> 0],
      management |-> [kind |-> "noscore", score |-> 0],
      sustainability |-> [kind |-> "noscore", score |-> 0], fetch_raises |-> TRUE],
     [superinvestor |-> [kind |-> "none", buys |-> 0, sells |-> 0],
      insider |-> [kind |-> "none", buys |-> 0, net_value |-> 0],
      management |-> [kind |-> "score", score |-> 6],
      sustainability |-> [kind |-> "score", score |-> 6], fetch_raises |-> FALSE],
     [superinvestor |-> [kind |-> "notable", buys |-> 0, sells |-> 0],
      insider |-> [kind |-> "none", buys |-> 0, net_value |-> 0],
      management |-> [kind |-> "score", score |-> 6],
      sustainability |-> [kind |-> "score", score |-> 6], fetch_raises |-> FALSE],
     [superinvestor |-> [kind |-> "notable", buys |-> 0, sells |-> 0],
      insider |-> [kind |-> "none", buys |-> 0, net_value |-> 0],
      management |-> [kind |-> "score", score |-> 8],
      sustainability |-> [kind |-> "score", score |-> 6], fetch_raises |-> FALSE],
     [superinvestor |-> [kind |-> "table", buys |-> 2, sells |-> 0],
      insider |-> [kind |-> "none", buys |-> 0, net_value |-> 0],
      management |-> [kind |-> "score", score |-> 6],
      sustainability |-> [kind |-> "score", score |-> 6], fetch_raises |-> FALSE]}

\* an entry recorded `age` ticks before the run starts
RunEntry(ticker, age) ==
    [ticker |-> ticker, date |-> IsoFormat(StartClock - age), score |-> 5, price_delta |-> 300]

\* the store is empty, or holds entries inside the cooldown, one tick from
\* its end, and just past it
RunFiles ==
    {[state |-> "ok", value |-> [kind |-> "dict", items |-> items]] :
        items \in {<<>>,
                   <<RunEntry("AAA", TimeDelta(CooldownDays) - 1)>>,
                   <<RunEntry("AAA", TicksPerDay), RunEntry("BBB", TimeDelta(CooldownDays))>>,
                   <<RunEntry("AAA", TicksPerDay), RunEntry("BBB", TicksPerDay),
                     RunEntry("CCC", TicksPerDay)>>}}

InitRun ==
    /\ clock = StartClock /\ raised = "none" /\ RLIdle /\ AVIdle /\ ThIdle
    /\ file \in RunFiles
    /\ history = EmptyDict
    /\ ret = NoRet
    /\ writable \in BOOLEAN
    /\ other_history = EmptyDict
    /\ main_pc = "start"
    /\ excluded_tickers = <<>>
    /\ shown = 0
    /\ shortlist = <<>>
    /\ pos = 1
    /\ scored_candidates = <<>>
    /\ outcome = ""
    /\ runs = 1
    /\ excluded_at = 0
    /\ analyzed = <<>>
    /\ log = <<>>

RunNext ==
    \/ MainConstruct
    \/ MainClean
    \/ MainExcluded
    \/ MainShowExcluded
    \/ \E sl \in RunShortlists : MainScreen(sl)
    \/ /\ main_pc = "analyzing" /\ pos <= Len(shortlist)
       /\ \E a \in RunAnalyses : AnalyzeStock(a)
    \/ MainSelect
    \/ MainReport
    \/ /\ main_pc = "analyzing" /\ pos = 1 /\ clock = StartClock
       /\ Advance(1)

SpecRun == InitRun /\ [][RunNext]_vars

(***************************************************************************)
(* C1 (as stated): whenever a timestamp t is recorded, at most max_calls   *)
(* recorded timestamps lie in the trailing closed interval                 *)
(* [t - time_window, t], t itself included.                                *)
(***************************************************************************)
C1_SlidingWindow ==
    max_calls >= 1 =>
        \A i \in 1..Len(recorded) :
            Cardinality({j \in 1..i : recorded[j] >= recorded[i] - time_window})
                <= max_calls

(***************************************************************************)
(* C2: with max_calls >= 1 every wait_if_needed() call completes: it never *)
(* raises, it sleeps at most once and for a computed duration in           *)
(* 1..time_window (plus the buffer), a call that has returned has appended *)
(* exactly its own record, and a sleeping call always returns.             *)
(***************************************************************************)
C2_Safety ==
    max_calls >= 1 =>
        /\ raised = "none"
        /\ rl_pc = "sleeping" =>
              /\ wait_seconds \in 1..time_window
              /\ Len(recorded) = started - 1
        /\ rl_pc = "idle" =>
              /\ Len(recorded) = started
              /\ started > 0 =>
                    /\ calls # <<>>
                    /\ calls[Len(calls)] = now
                    /\ recorded[Len(recorded)] = now

C2_AdmissionCompletes ==
    /\ []C2_Safety
    /\ (rl_pc = "sleeping") ~> (rl_pc = "idle")

\* A call found the window full, slept, and returned with its record appended.
C2_Witness ==
    /\ max_calls >= 1
    /\ rl_pc = "idle"
    /\ wait_seconds > 0
    /\ Len(calls) = max_calls
    /\ calls[Len(calls)] = now
    /\ now > 0

(***************************************************************************)
(* Claims about RecommendationHistory (SpecHist).  T is the time an entry  *)
(* was recorded, t the time of the query, C the cooldown in ticks.         *)
(***************************************************************************)
RecordedAt(e) == FromIsoFormat(e.date)

ExcludedAnswer(ticker) ==
    IF ret.op = "get_excluded_tickers"
    THEN ticker \in Range(ret.list)
    ELSE ret.result

CooldownQuery(ticker) ==
    /\ history.kind = "dict"
    /\ ticker \in Keys(history)
    /\ \/ ret.op = "get_excluded_tickers"
       \/ ret.op = "is_recently_recommended" /\ ret.ticker = ticker

(***************************************************************************)
(* C3 (as stated): an entry recorded at T is reported as excluded by       *)
(* get_excluded_tickers(C) and is_recently_recommended at every t in       *)
(* (T, T+C], the instant T+C included, and as not excluded at every        *)
(* t > T+C.                                                                *)
(***************************************************************************)
C3_CooldownClosed ==
    \A ticker \in Tickers :
        CooldownQuery(ticker) =>
            LET T == RecordedAt(Get(history, ticker))
                C == ret.days * TicksPerDay
                t == ret.at
            IN /\ (T < t /\ t <= T + C) => ExcludedAnswer(ticker)
               /\ (t > T + C) => ~ExcludedAnswer(ticker)

(***************************************************************************)
(* C3 (amended): an entry recorded at T is reported as excluded at every t *)
(* with T <= t < T+C, and as not excluded at every t >= T+C: the cooldown  *)
(* ends at the instant T+C.                                                *)
(***************************************************************************)
C3_CooldownHalfOpen ==
    \A ticker \in Tickers :
        CooldownQuery(ticker) =>
            LET T == RecordedAt(Get(history, ticker))
                C == ret.days * TicksPerDay
                t == ret.at
            IN /\ (T <= t /\ t < T + C) => ExcludedAnswer(ticker)
               /\ (t >= T + C) => ~ExcludedAnswer(ticker)

\* get_excluded_tickers evaluated exactly C after the entry was recorded.
C3_Witness ==
    /\ ret.op = "get_excluded_tickers"
    /\ \E ticker \in Keys(history) :
          /\ ret.at = RecordedAt(Get(history, ticker)) + ret.days * TicksPerDay
          /\ ticker \notin Range(ret.list)
    /\ \E ticker \in Keys(history) : ticker \in Range(ret.list)

(***************************************************************************)
(* C4: get_excluded_tickers(days) returns exactly the tickers of the store *)
(* whose date is strictly later than now - days, each at most once, and    *)
(* never a ticker that has no entry.                                       *)
(***************************************************************************)
C4_ExcludedExactly ==
    ret.op = "get_excluded_tickers" =>
        LET cutoff == ret.at - ret.days * TicksPerDay IN
        /\ Range(ret.list) =
              {e.ticker : e \in {x \in Range(history.items) : RecordedAt(x) > cutoff}}
        /\ \A i, j \in 1..Len(ret.list) : ret.list[i] = ret.list[j] => i = j
        /\ \A ticker \in Tickers :
              (\A i \in 1..Len(history.items) : history.items[i].ticker # ticker)
                  => ticker \notin Range(ret.list)

\* A store whose first entry is out of cooldown and whose second is in it.
C4_Witness ==
    /\ ret.op = "get_excluded_tickers"
    /\ Len(history.items) = 2
    /\ ret.list = <<history.items[2].ticker>>
    /\ RecordedAt(history.items[1]) = ret.at - ret.days * TicksPerDay

(***************************************************************************)
(* C5: over sequential runs of main() that share the history file, if a    *)
(* symbol is recorded as the recommendation at time T, no later run whose  *)
(* exclusion list is computed at a time t with t - T < 60 days records the *)
(* same symbol (SpecPipe; log holds one record per recommendation).        *)
(***************************************************************************)
C5_CooldownAcrossRuns ==
    \A i \in 1..Len(log) : \A j \in 1..Len(log) :
        (i < j /\ log[i].ticker = log[j].ticker)
            => log[j].excluded_at - log[i].at >= CooldownDays * TicksPerDay

\* A run that analyzed the symbol recommended one tick less than 60 days
\* before its exclusion list was computed, and recorded the other symbol.
C5_Witness ==
    /\ main_pc = "reporting"
    /\ Len(log) = 2
    /\ log[1].ticker # log[2].ticker
    /\ log[2].excluded_at - log[1].at = CooldownDays * TicksPerDay - 1
    /\ \E k \in 1..Len(shortlist) : shortlist[k].Ticker = log[1].ticker
    /\ excluded_tickers = <<log[1].ticker>>

(***************************************************************************)
(* C6: add_recommendation(ticker, score, price_delta) leaves exactly one   *)
(* entry for ticker, equal to {date: now, score, price_delta}; the entries *)
(* of all other tickers are unchanged; the file holds the full in-memory   *)
(* mapping.                                                                *)
(***************************************************************************)
AddStep == ret'.op = "add_recommendation" /\ <<history, ret>> # <<history', ret'>>

C6_UpsertPost ==
    LET mine == {i \in 1..Len(history'.items) : history'.items[i].ticker = ret'.ticker} IN
    /\ history'.kind = "dict"
    /\ Cardinality(mine) = 1
    /\ \A i \in mine :
          /\ RecordedAt(history'.items[i]) = clock
          /\ Parsable(history'.items[i].date)
          /\ history'.items[i].score = ret'.score
          /\ history'.items[i].price_delta = ret'.price_delta
    /\ \A i \in 1..Len(history.items) :
          history.items[i].ticker # ret'.ticker =>
              /\ i <= Len(history'.items)
              /\ history'.items[i] = history.items[i]
    /\ \A i \in 1..Len(history'.items) :
          history'.items[i].ticker # ret'.ticker => i <= Len(history.items)
    /\ file' = [state |-> "ok", value |-> history']

C6_Upsert == [][AddStep => C6_UpsertPost]_vars

\* The first entry was overwritten after the second one was inserted.
C6_Witness ==
    /\ ret.op = "add_recommendation"
    /\ Len(history.items) = 2
    /\ history.items[1].ticker = ret.ticker
    /\ RecordedAt(history.items[1]) = ret.at
    /\ RecordedAt(history.items[2]) < ret.at
    /\ file.value = history

(***************************************************************************)
(* C7: after clean_old_entries(retention) at time now no entry with        *)
(* date < now - retention remains, every entry with date >= now -          *)
(* retention is still there with the same date, score and price_delta, and *)
(* the file is written only when an entry was removed.                     *)
(***************************************************************************)
CleanStep == ret'.op = "clean_old_entries" /\ <<history, ret>> # <<history', ret'>>

C7_PrunePost ==
    LET cutoff == clock - ret'.days * TicksPerDay IN
    /\ \A e \in Range(history'.items) : RecordedAt(e) >= cutoff
    /\ \A e \in Range(history.items) :
          RecordedAt(e) >= cutoff => e \in Range(history'.items)
    /\ Range(history'.items) \subseteq Range(history.items)
    /\ ret'.saved <=> Len(history'.items) < Len(history.items)
    /\ ret'.saved => file' = [state |-> "ok", value |-> history']
    /\ ~ret'.saved => file' = file

C7_Prune == [][CleanStep => C7_PrunePost]_vars

\* One entry was removed, and one dated exactly now - retention was kept.
C7_Witness ==
    /\ ret.op = "clean_old_entries"
    /\ ret.saved
    /\ Len(ret.list) = 1
    /\ Len(history.items) = 1
    /\ RecordedAt(history.items[1]) = ret.at - ret.days * TicksPerDay
    /\ file.value = history

(***************************************************************************)
(* C8 (as stated): for every state of the history file, constructing the   *)
(* store and running the start-up steps of main() raises no error, and a   *)
(* file that holds no well-formed mapping behaves as an empty store        *)
(* (SpecStartup).                                                          *)
(***************************************************************************)
WellFormedFile ==
    /\ file.state = "ok"
    /\ file.value.kind = "dict"
    /\ \A k \in 1..Len(file.value.items) : Parsable(file.value.items[k].date)

C8_LoadNeverFatal ==
    /\ main_pc # "crashed"
    /\ (main_pc = "showing" /\ ~WellFormedFile) => excluded_tickers = <<>>

(***************************************************************************)
(* Claims about scoring (SpecScore).  total_score is in half points.       *)
(***************************************************************************)
\* both analyzer results carry a numeric score
HasScores(c) ==
    /\ c.ai_data.management.kind \in {"score", "fallback"}
    /\ c.ai_data.sustainability.kind \in {"score", "fallback"}

\* management_score / 2 + sustainability_score / 2, in half points
QualitativeOf(c) == c.ai_data.management.score + c.ai_data.sustainability.score

(***************************************************************************)
(* C9: for every scored candidate with valid inputs,                       *)
(* 0 <= smart_money_score <= 10, 0 <= qualitative component <= 10,         *)
(* 0 <= bonus component <= 2 and 0 <= total_score <= 20, the bonus being   *)
(* what total_score holds beyond the smart-money and qualitative parts.    *)
(***************************************************************************)
C9_ScoringBounds ==
    \A c \in Range(scored_candidates) :
        HasScores(c) =>
            LET bonus2 == c.total_score - 2 * c.smart_money_score - QualitativeOf(c) IN
            /\ c.smart_money_score \in 0..10
            /\ QualitativeOf(c) \in 0..20
            /\ bonus2 \in {0, 2, 4}
            /\ c.total_score \in 0..40

\* A candidate that reaches the documented ceiling of 20 points.
C9_Witness ==
    \E c \in Range(scored_candidates) :
        /\ HasScores(c)
        /\ c.total_score = 40
        /\ c.smart_money_score = 8

(***************************************************************************)
(* C10: for every scored candidate smart_money_score = insider_score +     *)
(* superinvestor_score with insider_score in 0..3 and superinvestor_score  *)
(* in 0..5, and total_score = smart_money_score + management_score/2 +     *)
(* sustainability_score/2 + bonus with bonus in 0..2; superinvestor buys 2 *)
(* and sells 0, insider net value 150000, management 8, sustainability 6,  *)
(* debt/equity 0.3 and above-low 3% give smart_money_score 8 and           *)
(* total_score 17.                                                         *)
(***************************************************************************)
ScenarioAAA(c) ==
    /\ c.analysis_data.superinvestor = [kind |-> "table", buys |-> 2, sells |-> 0]
    /\ c.analysis_data.insider.kind = "dict"
    /\ c.analysis_data.insider.net_value = 150000
    /\ c.ai_data.management = [kind |-> "score", score |-> 8]
    /\ c.ai_data.sustainability = [kind |-> "score", score |-> 6]
    /\ c.price_data.Debt_Equity = [known |-> TRUE, value |-> 30]
    /\ c.price_data.Above_Low_Pct = 300

C10_AdditiveComposition ==
    \A c \in Range(scored_candidates) :
        /\ c.smart_money_score = c.insider_score + c.superinvestor_score
        /\ c.insider_score \in 0..3
        /\ c.superinvestor_score \in 0..5
        /\ HasScores(c) =>
              \E bonus \in 0..2 :
                  c.total_score = 2 * c.smart_money_score + QualitativeOf(c) + 2 * bonus
        /\ ScenarioAAA(c) => c.smart_money_score = 8 /\ c.total_score = 2 * 17

\* The candidate of the scenario has been scored.
C10_Witness ==
    \E c \in Range(scored_candidates) : ScenarioAAA(c) /\ c.ticker = "AAA"

(***************************************************************************)
(* C11: for all buy and sell counts >= 0, superinvestor_score is 0 when    *)
(* buys = 0, 5 when buys > sells, and 4 when 0 < buys <= sells; no other   *)
(* value is produced.                                                      *)
(***************************************************************************)
C11_SuperinvestorTable ==
    \A c \in Range(scored_candidates) :
        LET buys == c.analysis_data.superinvestor.buys
            sells == c.analysis_data.superinvestor.sells
        IN /\ buys = 0 => c.superinvestor_score = 0
           /\ buys > sells => c.superinvestor_score = 5
           /\ (0 < buys /\ buys <= sells) => c.superinvestor_score = 4
           /\ c.superinvestor_score \in {0, 4, 5}

\* A candidate with buy activity that does not exceed the sells.
C11_Witness ==
    \E c \in Range(scored_candidates) :
        /\ c.analysis_data.superinvestor.buys = 1
        /\ c.analysis_data.superinvestor.sells = 2
        /\ c.superinvestor_score = 4

(***************************************************************************)
(* C12: insider_score is 3 when net_value > MIN_INSIDER_BUY_VALUE, else 2  *)
(* when net_value > 0, else 1 when the buy count is > 0, else 0 (also 0    *)
(* without an insider fact); a net value equal to the threshold scores 2.  *)
(***************************************************************************)
C12_InsiderTable ==
    \A c \in Range(scored_candidates) :
        LET ins == c.analysis_data.insider IN
        /\ ins.kind = "none" => c.insider_score = 0
        /\ ins.kind = "dict" =>
              /\ ins.net_value > 100000 => c.insider_score = 3
              /\ (0 < ins.net_value /\ ins.net_value <= 100000) => c.insider_score = 2
              /\ (ins.net_value <= 0 /\ ins.buys > 0) => c.insider_score = 1
              /\ (ins.net_value <= 0 /\ ins.buys = 0) => c.insider_score = 0

\* A candidate whose insider net value equals the threshold.
C12_Witness ==
    \E c \in Range(scored_candidates) :
        /\ c.analysis_data.insider.kind = "dict"
        /\ c.analysis_data.insider.net_value = 100000
        /\ c.insider_score = 2

(***************************************************************************)
(* C13 (as stated): the bonus in total_score equals (1 if debt-to-equity   *)
(* is known and < 0.5, else 0) + (1 if Above_Low_Pct < 5, else 0), every   *)
(* known debt-to-equity value counting as known, the value 0 included.     *)
(***************************************************************************)
C13_BonusTable ==
    \A c \in Range(scored_candidates) :
        HasScores(c) =>
            c.total_score - 2 * c.smart_money_score - QualitativeOf(c)
                = 2 * ((IF c.price_data.Debt_Equity.known
                           /\ c.price_data.Debt_Equity.value < 50 THEN 1 ELSE 0)
                       + (IF c.price_data.Above_Low_Pct < 500 THEN 1 ELSE 0))

(***************************************************************************)
(* C14 (as stated): a shortlisted symbol whose superinvestor fact and/or   *)
(* insider fact is absent, all other calls of its iteration having         *)
(* succeeded, still appears in scored_candidates, with 0 for the absent    *)
(* component and smart_money_score the sum of the two components.          *)
(***************************************************************************)
OtherCallsSucceed(a) ==
    /\ ~a.fetch_raises
    /\ a.management.kind # "nondict"
    /\ a.sustainability.kind # "nondict"

C14_MissingActivityScored ==
    \A k \in 1..Len(analyzed) :
        LET a == analyzed[k] IN
        (/\ OtherCallsSucceed(a)
         /\ a.superinvestor.kind = "none" \/ a.insider.kind = "none")
            => \E c \in Range(scored_candidates) :
                  /\ c.ticker = shortlist[k].Ticker
                  /\ a.superinvestor.kind = "none" => c.superinvestor_score = 0
                  /\ a.insider.kind = "none" => c.insider_score = 0
                  /\ c.smart_money_score = c.insider_score + c.superinvestor_score

(***************************************************************************)
(* C15 (as stated): whenever the analyzer yields no numeric score for      *)
(* management or sustainability (the call failed, or the returned record   *)
(* has no score field), that sub-score counts as 5, contributing 2.5 to    *)
(* total_score, and the symbol stays in scored_candidates.                 *)
(***************************************************************************)
NoNumericScore(r) == r.kind \in {"fallback", "noscore"}

SubScoreOrNeutral(r) == IF r.kind = "score" THEN r.score ELSE 5

C15_NeutralDefault ==
    \A k \in 1..Len(analyzed) :
        LET a == analyzed[k] IN
        (/\ OtherCallsSucceed(a)
         /\ a.superinvestor.kind # "none"
         /\ NoNumericScore(a.management) \/ NoNumericScore(a.sustainability))
            => \E c \in Range(scored_candidates) : \E bonus \in 0..2 :
                  /\ c.ticker = shortlist[k].Ticker
                  /\ c.total_score = 2 * c.smart_money_score
                                     + SubScoreOrNeutral(a.management)
                                     + SubScoreOrNeutral(a.sustainability)
                                     + 2 * bonus

(***************************************************************************)
(* Claims about one run of main() (SpecRun).  analyzed[k] is what the      *)
(* calls of the iteration for shortlist[k] returned.                       *)
(***************************************************************************)
\* the iterations that have appended a candidate
CompletedIterations == {k \in 1..Len(analyzed) : ~AnalysisRaises(analyzed[k])}

\* the candidates of the completed iterations that the exclusion list keeps
PostExclusion ==
    {Candidate(shortlist[k], analyzed[k]) :
        k \in {i \in CompletedIterations : shortlist[i].Ticker \notin Range(excluded_tickers)}}

\* the position of a candidate's stock in the shortlist
ShortlistIndex(c) == CHOOSE k \in 1..Len(shortlist) : shortlist[k].Ticker = c.ticker

SameKeys(a, b) ==
    /\ a.smart_money_score = b.smart_money_score
    /\ a.total_score = b.total_score
    /\ a.price_delta_pct = b.price_delta_pct

IsPermutationOfPostExclusion ==
    /\ Len(scored_candidates) = Cardinality(PostExclusion)
    /\ Range(scored_candidates) = PostExclusion

(***************************************************************************)
(* C16: the ranked list is a permutation of the post-exclusion candidates  *)
(* in which every adjacent pair (a before b) has a.smart_money_score >     *)
(* b's, or equal and a.total_score > b's, or both equal and                *)
(* a.price_delta_pct <= b's; the recommended symbol is the first element.  *)
(***************************************************************************)
C16_RankingOrder ==
    main_pc = "reporting" =>
        /\ IsPermutationOfPostExclusion
        /\ \A i \in 1..(Len(scored_candidates) - 1) :
              LET a == scored_candidates[i]
                  b == scored_candidates[i + 1]
              IN \/ a.smart_money_score > b.smart_money_score
                 \/ /\ a.smart_money_score = b.smart_money_score
                    /\ a.total_score > b.total_score
                 \/ /\ a.smart_money_score = b.smart_money_score
                    /\ a.total_score = b.total_score
                    /\ a.price_delta_pct <= b.price_delta_pct
        /\ ret.op = "add_recommendation"
        /\ ret.ticker = scored_candidates[1].ticker
        /\ log[Len(log)].ticker = scored_candidates[1].ticker

\* Two candidates tied on smart_money_score and total_score: the one with
\* the lower price_delta_pct came later in the shortlist and ranks first.
C16_Witness ==
    /\ main_pc = "reporting"
    /\ Len(scored_candidates) >= 2
    /\ scored_candidates[1].smart_money_score = scored_candidates[2].smart_money_score
    /\ scored_candidates[1].total_score = scored_candidates[2].total_score
    /\ scored_candidates[1].price_delta_pct < scored_candidates[2].price_delta_pct
    /\ ShortlistIndex(scored_candidates[1]) > ShortlistIndex(scored_candidates[2])

(***************************************************************************)
(* C17: the ranked list is determined by its input: it is the permutation  *)
(* of the post-exclusion candidates ordered by the three keys, candidates  *)
(* that tie on all three keeping their input order.                        *)
(***************************************************************************)
C17_StableRanking ==
    main_pc = "reporting" =>
        /\ IsPermutationOfPostExclusion
        /\ \A i \in 1..Len(scored_candidates) : \A j \in 1..Len(scored_candidates) :
              i < j =>
                 LET a == scored_candidates[i]
                     b == scored_candidates[j]
                 IN IF SameKeys(a, b)
                    THEN ShortlistIndex(a) < ShortlistIndex(b)
                    ELSE \/ a.smart_money_score > b.smart_money_score
                         \/ /\ a.smart_money_score = b.smart_money_score
                            /\ a.total_score > b.total_score
                         \/ /\ a.smart_money_score = b.smart_money_score
                            /\ a.total_score = b.total_score
                            /\ a.price_delta_pct < b.price_delta_pct

\* Two candidates tied on all three keys, ranked in shortlist order.
C17_Witness ==
    /\ main_pc = "reporting"
    /\ Len(scored_candidates) >= 2
    /\ SameKeys(scored_candidates[1], scored_candidates[2])
    /\ scored_candidates[1].ticker = "BBB"
    /\ scored_candidates[2].ticker = "AAA"

(***************************************************************************)
(* C18: a run ends early with exactly one of three outcomes: no stocks     *)
(* matched when the deduplicated shortlist is empty, no candidates after   *)
(* analysis when the shortlist is non-empty and every iteration failed,    *)
(* all recently recommended when candidates exist and all are excluded;    *)
(* each occurs only under its condition and none ranks, records or         *)
(* reports.                                                                *)
(***************************************************************************)
C18_EmptyOutcomes ==
    /\ main_pc # "done" => outcome = ""
    /\ main_pc = "done" =>
          /\ outcome = "No stocks found matching criteria." <=> shortlist = <<>>
          /\ outcome = "No candidates after analysis."
                <=> (shortlist # <<>> /\ CompletedIterations = {})
          /\ outcome = "No new candidates available."
                <=> (CompletedIterations # {} /\ PostExclusion = {})
          /\ outcome = "reported" <=> PostExclusion # {}
          /\ outcome # "reported" =>
                /\ scored_candidates = <<>>
                /\ log = <<>>
                /\ ret.op # "add_recommendation"
                /\ \A k \in 1..Len(file.value.items) :
                      FromIsoFormat(file.value.items[k].date) < StartClock

\* Every candidate of the run was excluded, and one iteration had failed.
C18_Witness ==
    /\ main_pc = "done"
    /\ outcome = "No new candidates available."
    /\ Len(shortlist) = 3
    /\ Cardinality(CompletedIterations) = 2

(***************************************************************************)
(* C19: the exclusion list is computed once, at the start of the run       *)
(* before screening; that list filters the scored candidates: exactly the  *)
(* candidates whose ticker is in it are removed, and the recommended       *)
(* symbol is not in it.                                                    *)
(***************************************************************************)
C19_FilteredByStartList ==
    /\ main_pc \in {"showing", "analyzing"} =>
          Range(excluded_tickers) =
              {history.items[k].ticker : k \in
                  {i \in 1..Len(history.items) :
                      FromIsoFormat(history.items[i].date)
                          > excluded_at - CooldownDays * TicksPerDay}}
    /\ main_pc \in {"reporting", "done"} =>
          {scored_candidates[k].ticker : k \in 1..Len(scored_candidates)}
              = {shortlist[k].Ticker : k \in CompletedIterations} \ Range(excluded_tickers)
    /\ main_pc = "reporting" =>
          /\ ret.ticker \notin Range(excluded_tickers)
          /\ log[Len(log)].ticker \notin Range(excluded_tickers)

C19_ComputedOnce ==
    [][(\/ excluded_tickers' # excluded_tickers
        \/ ret'.op = "get_excluded_tickers" /\ ret' # ret) => main_pc = "cleaned"]_vars

\* C19: the exclusion list is computed once, before screening, and that list
\* filters the scored candidates.
C19_ExclusionFixedPerRun == []C19_FilteredByStartList /\ C19_ComputedOnce

\* A symbol that was in cooldown when the list was computed and is past it
\* when the candidates are filtered: it was scored, and is still removed.
C19_Witness ==
    /\ main_pc = "reporting"
    /\ clock > excluded_at
    /\ excluded_tickers = <<"AAA">>
    /\ FromIsoFormat(history.items[1].date) = clock - CooldownDays * TicksPerDay
    /\ \E k \in CompletedIterations : shortlist[k].Ticker = "AAA"

(***************************************************************************)
(* C20: an iteration that raises contributes no candidate, every symbol    *)
(* after it is still processed, and scored_candidates holds exactly the    *)
(* candidates of the completed iterations, whole and in shortlist order.   *)
(***************************************************************************)
RECURSIVE CandidatesOfFirst(_)
CandidatesOfFirst(n) ==
    IF n = 0 THEN <<>>
    ELSE CandidatesOfFirst(n - 1)
         \o (IF n \in CompletedIterations
             THEN <<Candidate(shortlist[n], analyzed[n])>> ELSE <<>>)

C20_FailureIsolation ==
    /\ main_pc = "analyzing" =>
          /\ Len(analyzed) <= Len(shortlist)
          /\ scored_candidates = CandidatesOfFirst(Len(analyzed))
    /\ main_pc \in {"reporting", "done"} => Len(analyzed) = Len(shortlist)

\* The first iteration raised and the second appended its candidate.
C20_Witness ==
    /\ main_pc = "analyzing"
    /\ Len(analyzed) = 2
    /\ 1 \notin CompletedIterations
    /\ Len(scored_candidates) = 1
    /\ scored_candidates[1].ticker = shortlist[2].Ticker


(***************************************************************************)
(* The Alpha Vantage functions and the shared limiter                      *)
(***************************************************************************)

\* What each function does with alpha_vantage_limiter and the service, in the
\* order of its statements.  get_quarterly_financials waits once, then calls
\* fd.get_income_statement_annual (function=INCOME_STATEMENT) and then
\* requests.get on the INCOME_STATEMENT url.
AVFunctions == {"get_company_info", "get_quarterly_financials", "get_earnings_history",
                "get_fundamental_data"}

AVSteps(fn) ==
    CASE fn = "get_company_info" -> <<"wait", "request">>
      [] fn = "get_quarterly_financials" -> <<"wait", "request", "request">>
      [] fn = "get_earnings_history" -> <<"wait", "request">>
      [] fn = "get_fundamental_data" -> <<"wait", "request", "wait", "request">>

\* a function is entered
AVCall(fn) ==
    /\ av_todo = <<>>
    /\ rl_pc = "idle"
    /\ av_todo' = AVSteps(fn)
    /\ UNCHANGED <<clock, raised, rlVars, av_requests, thVars, histVars, mainVars>>

\* alpha_vantage_limiter.wait_if_needed(), up to its sleep
AVAdmit ==
    /\ av_todo # <<>> /\ Head(av_todo) = "wait"
    /\ WaitIfNeeded
    /\ av_todo' = IF rl_pc' = "idle" THEN Tail(av_todo) ELSE av_todo
    /\ UNCHANGED av_requests

\* alpha_vantage_limiter.wait_if_needed(), from the end of its sleep
AVWake ==
    /\ av_todo # <<>> /\ Head(av_todo) = "wait"
    /\ WaitIfNeededWake
    /\ av_todo' = Tail(av_todo)
    /\ UNCHANGED av_requests

\* one request to the service; a failing request raises into the function's
\* except clause, which returns
AVRequest(ok) ==
    /\ av_todo # <<>> /\ Head(av_todo) = "request"
    /\ av_requests' = av_requests + 1
    /\ av_todo' = IF ok THEN Tail(av_todo) ELSE <<>>
    /\ UNCHANGED <<clock, raised, rlVars, thVars, histVars, mainVars>>

InitAV ==
    /\ clock = 0 /\ raised = "none" /\ RLInit /\ max_calls >= 1
    /\ AVIdle /\ ThIdle /\ HistIdle /\ MainIdle

AVNext ==
    \/ \E fn \in AVFunctions : AVCall(fn)
    \/ AVAdmit
    \/ AVWake
    \/ \E ok \in BOOLEAN : AVRequest(ok)
    \/ clock < MaxTime /\ Advance(1)

SpecAV == InitAV /\ [][AVNext]_vars

(***************************************************************************)
(* C21: every request to Alpha Vantage is preceded by its own              *)
(* wait_if_needed(): at every point the number of requests issued so far   *)
(* is at most the number of call records admitted so far.                  *)
(* get_quarterly_financials issues two requests after one admission.       *)
(***************************************************************************)
C21_EveryRequestGoverned == av_requests <= Len(recorded)


(***************************************************************************)
(* C22: when persisting the store fails during add_recommendation, the     *)
(* failure leaves add_recommendation and main(): the run ends with the     *)
(* OSError, it never reaches report generation and records nothing as      *)
(* recommended.                                                            *)
(***************************************************************************)
C22_WriteFailureSurfaced ==
    /\ [](~writable => main_pc # "reporting" /\ outcome # "reported")
    /\ [][(/\ ~writable
           /\ main_pc = "analyzing"
           /\ main_pc' # "analyzing"
           /\ outcome' = "")
          => /\ ret'.op = "raise"
             /\ raised' = "OSError"
             /\ main_pc' = "crashed"
             /\ log' = log]_vars

C22_Witness ==
    /\ ~writable
    /\ main_pc = "crashed"
    /\ raised = "OSError"
    /\ shortlist # <<>>
    /\ pos > Len(shortlist)
    /\ scored_candidates # <<>>


(***************************************************************************)
(* C23: a run with at least one post-exclusion candidate invokes           *)
(* add_recommendation exactly once, for the first element of the ranked    *)
(* order with its smart_money_score and price_delta_pct, and the report    *)
(* starts only after that call returned; a run that ends in one of the     *)
(* three empty outcomes never invokes it, and the store changes only in    *)
(* the construction and pruning at the start of the run.                   *)
(***************************************************************************)
C23_RecordThenReport ==
    \* the report is entered by the step that recorded the best candidate
    /\ [][(main_pc' = "reporting" /\ main_pc # "reporting")
          => /\ main_pc = "analyzing"
             /\ log = <<>>
             /\ Len(log') = 1
             /\ ret'.op = "add_recommendation"
             /\ ret'.at = clock
             /\ ret'.ticker = scored_candidates'[1].ticker
             /\ ret'.score = scored_candidates'[1].smart_money_score
             /\ ret'.price_delta = scored_candidates'[1].price_delta_pct
             /\ Get(history', ret'.ticker).score = ret'.score
             /\ Get(history', ret'.ticker).price_delta = ret'.price_delta]_vars
    \* and nothing is recorded after that
    /\ []((main_pc = "reporting" \/ outcome = "reported")
          => ret.op = "add_recommendation" /\ Len(log) = 1)
    \* with a post-exclusion candidate the call is made when the loop is left
    /\ [][(main_pc = "analyzing" /\ main_pc' # "analyzing" /\ PostExclusion # {})
          => /\ ret'.op \in {"add_recommendation", "raise"}
             /\ ret'.at = clock
             /\ main_pc' \in {"reporting", "crashed"}]_vars
    \* the empty outcomes call nothing on the store
    /\ [][(main_pc # "done" /\ main_pc' = "done" /\ outcome' # "reported")
          => /\ outcome' # ""
             /\ log' = <<>>
             /\ UNCHANGED <<ret, file, history>>]_vars
    \* after the pruning the store changes in the recording step only
    /\ [][(file' # file \/ history' # history)
          => \/ main_pc \in {"start", "constructed"}
             \/ main_pc = "analyzing" /\ main_pc' \in {"reporting", "crashed"}]_vars

\* The report of a run that ranked two candidates and recorded the first,
\* whose total_score differs from its smart_money_score.
C23_Witness ==
    /\ outcome = "reported"
    /\ Len(scored_candidates) >= 2
    /\ ret.op = "add_recommendation"
    /\ ret.ticker = scored_candidates[1].ticker
    /\ scored_candidates[1].total_score # scored_candidates[1].smart_money_score
    /\ Len(log) = 1


(***************************************************************************)
(* C24: a retention horizon smaller than the cooldown horizon is rejected  *)
(* before any entry is pruned or any exclusion set is computed: no         *)
(* clean_old_entries(retention) that pruned an entry is followed by a      *)
(* get_excluded_tickers(cooldown) with cooldown > retention that returns   *)
(* a list.                                                                 *)
(***************************************************************************)
C24_ConfigurationEnforced ==
    [][~(/\ ret.op = "clean_old_entries"
         /\ ret.list # <<>>
         /\ ret'.op = "get_excluded_tickers"
         /\ ret'.days > ret.days)]_vars


(***************************************************************************)
(* RateLimiter: get_current_usage and reset                                *)
(***************************************************************************)

RECURSIVE EvictStaleInclusive(_, _)
EvictStaleInclusive(c, t) ==
    IF c # <<>> /\ (t - Head(c)) >= time_window
    THEN EvictStaleInclusive(Tail(c), t)
    ELSE c

\* the eviction loop of get_current_usage
UsageEvict(c, t) == EvictStale(c, t)

\* get_current_usage()
GetCurrentUsage ==
    /\ rl_pc = "idle"
    /\ calls' = UsageEvict(calls, clock)
    /\ usage' = Len(calls')
    /\ UNCHANGED <<clock, raised, max_calls, time_window, rl_pc, now, wait_seconds,
                   recorded, started, avVars, thVars, histVars, mainVars>>

\* reset()
Reset ==
    /\ rl_pc = "idle"
    /\ calls' = <<>>
    /\ UNCHANGED <<clock, raised, max_calls, time_window, rl_pc, now, wait_seconds,
                   recorded, started, usage, avVars, thVars, histVars, mainVars>>

InitRLOps ==
    clock = 0 /\ raised = "none" /\ RLInit /\ AVIdle /\ ThIdle /\ HistIdle /\ MainIdle

RLOpsNext ==
    \/ WaitIfNeeded /\ UNCHANGED avVars
    \/ WaitIfNeededWake /\ UNCHANGED avVars
    \/ GetCurrentUsage
    \/ Reset
    \/ clock < MaxTime /\ Advance(1)

SpecRLOps == InitRLOps /\ [][RLOpsNext]_vars

(***************************************************************************)
(* C25: get_current_usage() returns the number of records whose age is at  *)
(* most the window, removes only records strictly older than the window    *)
(* and adds none: the records after the call are a suffix of the records   *)
(* before it; reset() leaves the sequence empty.                           *)
(***************************************************************************)
C25_UsageAndReset ==
    /\ [][GetCurrentUsage
          => /\ usage' = Cardinality({i \in 1..Len(calls) :
                                         clock - calls[i] <= time_window})
             /\ \E k \in 0..Len(calls) :
                   /\ calls' = SubSeq(calls, k + 1, Len(calls))
                   /\ \A i \in 1..k : clock - calls[i] > time_window
             /\ \A i \in 1..Len(calls') : clock - calls'[i] <= time_window
             /\ recorded' = recorded]_vars
    /\ [][Reset => calls' = <<>> /\ recorded' = recorded]_vars

\* get_current_usage counted two records, the older one exactly one window
\* old, after an older record had been evicted.
C25_Witness ==
    /\ usage = 2
    /\ Len(calls) = 2
    /\ clock - calls[1] = time_window
    /\ Len(recorded) > 2

(***************************************************************************)
(* C26: after any sequence of wait_if_needed(), get_current_usage() and    *)
(* reset() calls on one limiter with max_calls >= 1 over a non-decreasing  *)
(* clock, the number of stored records never exceeds max_calls, so         *)
(* get_current_usage() never returns more, and the stored timestamps are   *)
(* in non-decreasing order.                                                *)
(***************************************************************************)
C26_RecordCount ==
    max_calls >= 1 =>
        /\ Len(calls) <= max_calls
        /\ usage <= max_calls
        /\ \A i \in 1..(Len(calls) - 1) : calls[i] <= calls[i + 1]

(***************************************************************************)
(* C27: for every max_calls >= 0 the constructor accepts, the record       *)
(* sequence is non-empty whenever wait_if_needed() takes the at-limit      *)
(* branch, so reading the oldest record never fails.                       *)
(***************************************************************************)
C27_OldestReadDefined == raised # "IndexError"


(***************************************************************************)
(* C28: with retention >= cooldown, clean_old_entries(retention) at time   *)
(* t1 removes no entry that get_excluded_tickers(cooldown) would return at *)
(* any time t2 >= t1: every removed entry is at least one cooldown old at  *)
(* t2, and the exclusion list computed from the pruned store equals the    *)
(* list computed from the store as it was.                                 *)
(***************************************************************************)
C28_PruningKeepsCooldown ==
    [][CleanStep =>
          \A cooldown \in 1..ret'.days :
             \A t2 \in clock..(MaxTime + MaxDays * TicksPerDay) :
                LET cutoff_date == t2 - cooldown * TicksPerDay IN
                /\ \A e \in Range(history.items) :
                      e.ticker \in Range(ret'.list) => RecordedAt(e) <= cutoff_date
                /\ ExcludedLoop(history'.items, cutoff_date)
                      = ExcludedLoop(history.items, cutoff_date)]_vars

\* A pruning removed one entry and kept another that is still in cooldown.
C28_Witness ==
    /\ ret.op = "clean_old_entries"
    /\ ret.list # <<>>
    /\ history.kind = "dict"
    /\ ExcludedLoop(history.items, clock - ret.days * TicksPerDay) # <<>>


(***************************************************************************)
(* Two threads in wait_if_needed on one RateLimiter.  The limiter has no   *)
(* lock; each thread has its own `now` and `wait_seconds`, and the steps   *)
(* of the two threads interleave at the statements that read or write      *)
(* self.calls.                                                             *)
(***************************************************************************)

\* now = datetime.now()
ThStart(c) ==
    /\ th_pc[c] = "idle"
    /\ started < MaxRecorded
    /\ clock + time_window + SleepBuffer <= MaxTime
    /\ started' = started + 1
    /\ th_now' = [th_now EXCEPT ![c] = clock]
    /\ th_pc' = [th_pc EXCEPT ![c] = "evict"]
    /\ UNCHANGED <<clock, raised, max_calls, time_window, calls, rl_pc, now, wait_seconds,
                   recorded, usage, th_wait, avVars, histVars, mainVars>>

\* the first eviction loop
ThEvict(c) ==
    /\ th_pc[c] = "evict"
    /\ calls' = EvictStale(calls, th_now[c])
    /\ th_pc' = [th_pc EXCEPT ![c] = "check"]
    /\ UNCHANGED <<clock, raised, max_calls, time_window, rl_pc, now, wait_seconds,
                   recorded, started, usage, th_now, th_wait, avVars, histVars, mainVars>>

\* if len(self.calls) >= self.max_calls: ... if wait_seconds > 0:
ThCheck(c) ==
    /\ th_pc[c] = "check"
    /\ IF AtLimit(calls) /\ calls # <<>>
       THEN LET w == WaitSeconds(Head(calls), th_now[c]) IN
            /\ th_wait' = [th_wait EXCEPT ![c] = w]
            /\ th_pc' = [th_pc EXCEPT ![c] = IF w > 0 THEN "sleeping" ELSE "append"]
       ELSE /\ th_pc' = [th_pc EXCEPT ![c] = "append"]
            /\ th_wait' = th_wait
    /\ UNCHANGED <<clock, raised, rlVars, th_now, avVars, histVars, mainVars>>

\* time.sleep returns; now = datetime.now(); the second eviction loop
ThWake(c) ==
    /\ th_pc[c] = "sleeping"
    /\ LET t == Max(clock, th_now[c] + th_wait[c] + SleepBuffer) IN
       /\ clock' = t
       /\ th_now' = [th_now EXCEPT ![c] = t]
       /\ calls' = EvictStale(calls, t)
    /\ th_pc' = [th_pc EXCEPT ![c] = "append"]
    /\ UNCHANGED <<raised, max_calls, time_window, rl_pc, now, wait_seconds, recorded,
                   started, usage, th_wait, avVars, histVars, mainVars>>

\* self.calls.append(now)
ThAppend(c) ==
    /\ th_pc[c] = "append"
    /\ calls' = Append(calls, th_now[c])
    /\ recorded' = Append(recorded, th_now[c])
    /\ th_pc' = [th_pc EXCEPT ![c] = "idle"]
    /\ UNCHANGED <<clock, raised, max_calls, time_window, rl_pc, now, wait_seconds,
                   started, usage, th_now, th_wait, avVars, histVars, mainVars>>

InitThreads ==
    /\ clock = 0 /\ raised = "none" /\ RLInit /\ max_calls >= 1
    /\ AVIdle /\ ThIdle /\ HistIdle /\ MainIdle

ThreadsNext ==
    \/ \E c \in Threads : ThStart(c)
    \/ \E c \in Threads : ThEvict(c)
    \/ \E c \in Threads : ThCheck(c)
    \/ \E c \in Threads : ThWake(c)
    \/ \E c \in Threads : ThAppend(c)
    \/ clock < MaxTime /\ Advance(1)

SpecThreads == InitThreads /\ [][ThreadsNext]_vars

(***************************************************************************)
(* C29: when two callers execute wait_if_needed() on one limiter with      *)
(* their steps interleaved, the number of call records within any trailing *)
(* window never exceeds max_calls. *)
(* The window is taken half-open, (t - time_window, t], so that a record   *)
(* exactly one window old does not count.                                  *)
(***************************************************************************)
C29_ConcurrentAdmission ==
    \A i \in 1..Len(recorded) :
       Cardinality({j \in 1..Len(recorded) :
                       /\ recorded[j] > recorded[i] - time_window
                       /\ recorded[j] <= recorded[i]}) <= max_calls


(***************************************************************************)
(* Two RecommendationHistory objects on one file: two overlapping runs of  *)
(* the pipeline                                                            *)
(***************************************************************************)

\* RecommendationHistory() in the other run
ConstructOther ==
    /\ other_history' = LoadHistory(file)
    /\ UNCHANGED <<clock, raised, file, history, ret, writable, rlVars, avVars, thVars>>

\* add_recommendation(ticker, score, price_delta) in the other run
AddRecommendationOther(ticker, score, price_delta) ==
    /\ other_history.kind = "dict"
    /\ LET entry == [ticker |-> ticker, date |-> IsoFormat(clock),
                     score |-> score, price_delta |-> price_delta]
           h == DictSet(other_history, ticker, entry)
       IN /\ other_history' = h
          /\ \E saved \in SaveOutcome(h) :
                /\ file' = saved.file
                /\ raised' = IF saved.error = "none" THEN raised ELSE saved.error
    /\ UNCHANGED <<clock, history, ret, writable, rlVars, avVars, thVars>>

\* the two runs overlap within this many ticks
TwoRunsHorizon == 1

InitTwoRuns ==
    clock = 0 /\ raised = "none" /\ RLIdle /\ AVIdle /\ ThIdle /\ HistIdle /\ MainIdle

TwoRunsNext ==
    \/ Construct /\ UNCHANGED mainVars
    \/ ConstructOther /\ UNCHANGED mainVars
    \/ \E ticker \in Tickers, r \in Recommendations :
           AddRecommendation(ticker, r[1], r[2]) /\ UNCHANGED mainVars
    \/ \E ticker \in Tickers, r \in Recommendations :
           AddRecommendationOther(ticker, r[1], r[2]) /\ UNCHANGED mainVars
    \/ \E days \in 1..MaxDays : GetExcludedTickers(days) /\ UNCHANGED mainVars
    \/ clock < TwoRunsHorizon /\ Advance(1)

SpecTwoRuns == InitTwoRuns /\ [][TwoRunsNext]_vars

(***************************************************************************)
(* C30: when two runs loaded from the same file each call                  *)
(* add_recommendation for a different symbol, the file afterwards holds    *)
(* both entries: an entry once persisted disappears from the file only     *)
(* through pruning or an overwrite of the same symbol.  No step of         *)
(* SpecTwoRuns prunes, so every symbol in the file stays in the file.      *)
(***************************************************************************)
C30_NoLostRecommendation ==
    [][file.state = "ok"
       => file'.state = "ok" /\ Keys(file.value) \subseteq Keys(file'.value)]_vars

====
